---- MODULE Spec2Model ----
(***************************************************************************)
(* Model of the HTTP service of src/src/main.rs: the handlers keypair,     *)
(* create_token and send_spl_token (with execute_spl_transfer), the        *)
(* transactions they build, sign and hand to the ledger client, the        *)
(* ledger that answers them, and the handlers sign_message and             *)
(* verify_message with the base58 texts they read and write.               *)
(*                                                                         *)
(* Strings of request bodies are sequences of one-character strings.       *)
(* A public key is a sequence of integers: 32 bytes when it was parsed     *)
(* from text, <<-2, id>> for the public half of a generated keypair and    *)
(* <<-1>> \o owner \o mint for an associated token address (a symbolic     *)
(* hash: equal exactly when its inputs are equal).                         *)
(***************************************************************************)
EXTENDS Integers, Sequences, FiniteSets, TLC

\* Request slots: how many requests the service receives in one behaviour.
NumReqs == 2
\* Threads the runtime has for executing handlers (a bounded pool).
NumWorkers == 1

Reqs == 1..NumReqs

----------------------------------------------------------------------------
(* Text and base58 *)

Rep(c, n) == [i \in 1..n |-> c]

Reverse(s) == [i \in 1..Len(s) |-> s[Len(s) + 1 - i]]

B58Alphabet ==
  << "1","2","3","4","5","6","7","8","9",
     "A","B","C","D","E","F","G","H","J","K","L","M","N","P","Q","R","S","T",
     "U","V","W","X","Y","Z",
     "a","b","c","d","e","f","g","h","i","j","k","m","n","o","p","q","r","s",
     "t","u","v","w","x","y","z" >>

\* The decode table of the alphabet: the digit of a character, 255 for a
\* character that is not a base58 digit.
B58Digit(c) ==
  IF \E i \in 1..Len(B58Alphabet) : B58Alphabet[i] = c
  THEN (CHOOSE i \in 1..Len(B58Alphabet) : B58Alphabet[i] = c) - 1
  ELSE 255

\* The carry left after a digit was folded into every byte: appended as new
\* high bytes (the output is little-endian while decoding).
RECURSIVE B58Carry(_)
B58Carry(val) ==
  IF val = 0 THEN <<>> ELSE <<val % 256>> \o B58Carry(val \div 256)

\* A digit folded into the bytes there are: each byte takes val + byte * 58,
\* keeps the low eight bits and hands the rest on.  The bytes are halved
\* rather than walked one by one to keep the evaluation shallow.
RECURSIVE B58MulAddBytes(_, _)
B58MulAddBytes(out, val) ==
  IF out = <<>> THEN [bytes |-> <<>>, carry |-> val]
  ELSE IF Len(out) = 1
  THEN LET v == val + out[1] * 58
       IN  [bytes |-> <<v % 256>>, carry |-> v \div 256]
  ELSE LET half == Len(out) \div 2
           lo == B58MulAddBytes(SubSeq(out, 1, half), val)
           hi == B58MulAddBytes(SubSeq(out, half + 1, Len(out)), lo.carry)
       IN  [bytes |-> lo.bytes \o hi.bytes, carry |-> hi.carry]

\* out := out * 58 + val, on little-endian bytes.
B58MulAdd(out, val) ==
  LET folded == B58MulAddBytes(out, val)
  IN  folded.bytes \o B58Carry(folded.carry)

RECURSIVE B58Fold(_, _)
B58Fold(s, out) ==
  IF s = <<>> THEN out
  ELSE IF Len(s) = 1 THEN B58MulAdd(out, B58Digit(s[1]))
  ELSE LET half == Len(s) \div 2
           first == B58Fold(SubSeq(s, 1, half), out)
       IN  IF Len(first) >= 0
           THEN B58Fold(SubSeq(s, half + 1, Len(s)), first) ELSE first

RECURSIVE B58LeadingZeros(_)
B58LeadingZeros(s) ==
  IF s # <<>> /\ Head(s) = B58Alphabet[1]
  THEN 1 + B58LeadingZeros(Tail(s)) ELSE 0

\* bs58::decode: the bytes of a base58 text, or an error on a character
\* outside the alphabet.
Bs58Decode(s) ==
  IF \E i \in 1..Len(s) : B58Digit(s[i]) = 255
  THEN [ok |-> FALSE, bytes |-> <<>>]
  ELSE [ok |-> TRUE,
        bytes |-> Reverse(B58Fold(s, <<>>) \o Rep(0, B58LeadingZeros(s)))]

\* Length of a public key in bytes, and the longest base58 text of one.
PUBKEY_BYTES == 32
MAX_BASE58_LEN == 44

\* Pubkey::from_str: Ok(key) for a base58 text of exactly 32 bytes.
PubkeyFromStr(s) ==
  IF Len(s) > MAX_BASE58_LEN THEN [ok |-> FALSE, key |-> <<>>]
  ELSE LET d == Bs58Decode(s)
       IN  IF d.ok /\ Len(d.bytes) = PUBKEY_BYTES
           THEN [ok |-> TRUE, key |-> d.bytes]
           ELSE [ok |-> FALSE, key |-> <<>>]

\* The carry left after a byte was folded into every digit: appended as new
\* high digits (the digits are little-endian while encoding).
RECURSIVE B58EncodeCarry(_)
B58EncodeCarry(val) ==
  IF val = 0 THEN <<>> ELSE <<val % 58>> \o B58EncodeCarry(val \div 58)

\* A byte folded into the digits there are: each digit takes
\* val + digit * 256, keeps the remainder by 58 and hands the rest on.
RECURSIVE B58EncodeMulAddDigits(_, _)
B58EncodeMulAddDigits(digits, val) ==
  IF digits = <<>> THEN [digits |-> <<>>, carry |-> val]
  ELSE IF Len(digits) = 1
  THEN LET v == val + digits[1] * 256
       IN  [digits |-> <<v % 58>>, carry |-> v \div 58]
  ELSE LET half == Len(digits) \div 2
           lo == B58EncodeMulAddDigits(SubSeq(digits, 1, half), val)
           hi == B58EncodeMulAddDigits(SubSeq(digits, half + 1, Len(digits)),
                                       lo.carry)
       IN  [digits |-> lo.digits \o hi.digits, carry |-> hi.carry]

\* digits := digits * 256 + val, on little-endian base58 digits.
B58EncodeMulAdd(digits, val) ==
  LET folded == B58EncodeMulAddDigits(digits, val)
  IN  folded.digits \o B58EncodeCarry(folded.carry)

RECURSIVE B58EncodeFold(_, _)
B58EncodeFold(bytes, digits) ==
  IF bytes = <<>> THEN digits
  ELSE IF Len(bytes) = 1 THEN B58EncodeMulAdd(digits, bytes[1])
  ELSE LET half == Len(bytes) \div 2
           first == B58EncodeFold(SubSeq(bytes, 1, half), digits)
       IN  IF Len(first) >= 0
           THEN B58EncodeFold(SubSeq(bytes, half + 1, Len(bytes)), first)
           ELSE first

RECURSIVE B58LeadingZeroBytes(_)
B58LeadingZeroBytes(bytes) ==
  IF bytes # <<>> /\ Head(bytes) = 0
  THEN 1 + B58LeadingZeroBytes(Tail(bytes)) ELSE 0

\* bs58::encode: the base58 text of a byte sequence, one leading "1" for
\* each leading zero byte.
Bs58Encode(bytes) ==
  LET digits == Reverse(B58EncodeFold(bytes, <<>>)
                        \o Rep(0, B58LeadingZeroBytes(bytes)))
  IN  [i \in 1..Len(digits) |-> B58Alphabet[digits[i] + 1]]

\* str::as_bytes, for the characters that occur in messages.
AsBytes(s) ==
  [i \in 1..Len(s) |->
     CASE s[i] = "e" -> 101
       [] s[i] = "h" -> 104
       [] s[i] = "l" -> 108
       [] s[i] = "o" -> 111]

----------------------------------------------------------------------------
(* Keys and signatures *)

\* Keypair::new() in request r: the i-th keypair the handler generates. A
\* fresh keypair is named by its secret; no two generated keypairs are equal.
KeypairNew(r, i) == [secret |-> 3 * (r - 1) + i]

\* Signer::pubkey: the public half of a keypair.
KeypairPubkey(kp) == <<-2, kp.secret>>

\* Signature::default(): the all-zero signature of an unsigned position.
DefaultSignature == [signer |-> <<>>, msg |-> <<>>]

\* Keypair::sign_message: only the holder of the keypair produces the
\* signature that verifies under its public key over exactly this message.
SignMessage(kp, msg) == [signer |-> KeypairPubkey(kp), msg |-> msg]

\* Signature::verify
VerifySignature(sig, pubkey, msg) == sig.signer = pubkey /\ sig.msg = msg

(***************************************************************************)
(* The bytes of keys and signatures.  Ed25519 itself is not modelled: the  *)
(* bytes below are stand-ins that keep what the handlers rely on.  A       *)
(* keypair is 64 bytes, secret half then public half; the public half and  *)
(* the signature of a message are functions of the secret, different for   *)
(* different keypairs and messages.                                        *)
(***************************************************************************)
SECRET_KEY_LENGTH == 32
KEYPAIR_LENGTH == 64
SIGNATURE_BYTES == 64
MAX_BASE58_SIGNATURE_LEN == 88

\* The secrets of the keypairs the service can generate.
KeySecrets == 1..(3 * NumReqs)

SecretKeyBytes(kp) ==
  [i \in 1..SECRET_KEY_LENGTH |-> (kp.secret * 41 + i * 7) % 256]

\* Pubkey::to_bytes of the public half of a keypair.
KeypairPubkeyBytes(kp) ==
  [i \in 1..PUBKEY_BYTES |-> (kp.secret * 89 + i * 13 + 5) % 256]

\* Keypair::to_bytes
KeypairToBytes(kp) == SecretKeyBytes(kp) \o KeypairPubkeyBytes(kp)

\* Keypair::to_base58_string
KeypairToBase58String(kp) == Bs58Encode(KeypairToBytes(kp))

\* Pubkey::to_string of the public half of a keypair.
KeypairPubkeyToString(kp) == Bs58Encode(KeypairPubkeyBytes(kp))

\* Keypair::from_bytes: the keypair of 64 bytes; bytes that are no keypair
\* of the signature scheme are an error.
KeypairFromBytes(bytes) ==
  IF /\ Len(bytes) = KEYPAIR_LENGTH
     /\ \E n \in KeySecrets : KeypairToBytes([secret |-> n]) = bytes
  THEN [ok |-> TRUE,
        kp |-> [secret |-> CHOOSE n \in KeySecrets :
                             KeypairToBytes([secret |-> n]) = bytes]]
  ELSE [ok |-> FALSE, kp |-> [secret |-> 0]]

\* Keypair::from_base58_string unwraps the decoding and Keypair::from_bytes:
\* ok is FALSE where it panics.
KeypairFromBase58String(s) ==
  LET d == Bs58Decode(s)
  IN  IF d.ok THEN KeypairFromBytes(d.bytes)
      ELSE [ok |-> FALSE, kp |-> [secret |-> 0]]

RECURSIVE MessageDigest(_)
MessageDigest(msg) ==
  IF msg = <<>> THEN 0
  ELSE (MessageDigest(Tail(msg)) * 31 + Head(msg) + 1) % 251

\* The 64 bytes of a signature made by Keypair::sign_message.
SignatureBytes(sig) ==
  [i \in 1..SIGNATURE_BYTES |->
     IF i <= 32 THEN (sig.signer[2] * 97 + i * 17) % 256
     ELSE (MessageDigest(sig.msg) * 3 + sig.signer[2] + i) % 256]

\* Signature::to_string
SignatureToString(sig) == Bs58Encode(SignatureBytes(sig))

\* Signature::from_str with the length limit of a public key.
SignatureFromStrShortLimit(s) ==
  IF Len(s) > MAX_BASE58_LEN THEN [ok |-> FALSE, bytes |-> <<>>]
  ELSE LET d == Bs58Decode(s)
       IN  IF d.ok /\ Len(d.bytes) = SIGNATURE_BYTES
           THEN [ok |-> TRUE, bytes |-> d.bytes]
           ELSE [ok |-> FALSE, bytes |-> <<>>]

\* Signature::from_str: Ok(signature) for a base58 text of exactly 64 bytes.
SignatureFromStr(s) ==
  IF Len(s) > MAX_BASE58_SIGNATURE_LEN THEN [ok |-> FALSE, bytes |-> <<>>]
  ELSE LET d == Bs58Decode(s)
       IN  IF d.ok /\ Len(d.bytes) = SIGNATURE_BYTES
           THEN [ok |-> TRUE, bytes |-> d.bytes]
           ELSE [ok |-> FALSE, bytes |-> <<>>]

\* SignatureVerify that checks the key and not the message.
SignatureVerifyKeyOnly(sigBytes, pubkeyBytes, message) ==
  \E n \in KeySecrets :
    /\ KeypairPubkeyBytes([secret |-> n]) = pubkeyBytes
    /\ \A i \in 1..SECRET_KEY_LENGTH :
         SignatureBytes(SignMessage([secret |-> n], message))[i] = sigBytes[i]

\* Signature::verify on bytes: TRUE exactly when the signature is the one
\* the keypair of this public key makes for this message.
SignatureVerify(sigBytes, pubkeyBytes, message) ==
  \E n \in KeySecrets :
    /\ KeypairPubkeyBytes([secret |-> n]) = pubkeyBytes
    /\ SignatureBytes(SignMessage([secret |-> n], message)) = sigBytes

----------------------------------------------------------------------------
(* Instructions *)

SystemProgramId == Rep(0, PUBKEY_BYTES)
TokenProgramId == <<-3>>
RentSysvarId == <<-4>>

\* Mint::LEN, the size of a mint account.
MintLen == 82

AccountMeta(pubkey, is_signer, is_writable) ==
  [pubkey |-> pubkey, is_signer |-> is_signer, is_writable |-> is_writable]

\* system_instruction::create_account
SystemCreateAccount(from, to, lamports, space, owner) ==
  [program_id |-> SystemProgramId,
   accounts |-> <<AccountMeta(from, TRUE, TRUE), AccountMeta(to, TRUE, TRUE)>>,
   data |-> [op |-> "CreateAccount", lamports |-> lamports, space |-> space,
             owner |-> owner]]

\* token_instruction::initialize_mint
InitializeMint(token_program, mint, mint_authority, freeze_authority, decimals) ==
  [program_id |-> token_program,
   accounts |-> <<AccountMeta(mint, FALSE, TRUE),
                  AccountMeta(RentSysvarId, FALSE, FALSE)>>,
   data |-> [op |-> "InitializeMint", decimals |-> decimals,
             mint_authority |-> mint_authority,
             freeze_authority |-> freeze_authority]]

\* get_associated_token_address
GetAssociatedTokenAddress(owner, mint) == <<-1>> \o owner \o mint

\* spl_token::instruction::transfer: the authority signs itself when no
\* multisig signers are given.
TokenTransfer(token_program, source, destination, authority, signer_pubkeys, amount) ==
  [program_id |-> token_program,
   accounts |-> <<AccountMeta(source, FALSE, TRUE),
                  AccountMeta(destination, FALSE, TRUE),
                  AccountMeta(authority, signer_pubkeys = <<>>, FALSE)>>
                \o [i \in 1..Len(signer_pubkeys) |->
                      AccountMeta(signer_pubkeys[i], TRUE, FALSE)],
   data |-> [op |-> "Transfer", amount |-> amount]]

----------------------------------------------------------------------------
(* Transactions *)

RECURSIVE Flatten(_)
Flatten(ss) == IF ss = <<>> THEN <<>> ELSE Head(ss) \o Flatten(Tail(ss))

\* The accounts of all instructions, in order.
AllMetas(instructions) ==
  Flatten([i \in 1..Len(instructions) |-> instructions[i].accounts])

\* An account is a signer (writable) of the message when any of its
\* references is.
IsSignerKey(metas, k) == \E i \in 1..Len(metas) : metas[i].pubkey = k /\ metas[i].is_signer
IsWritableKey(metas, k) == \E i \in 1..Len(metas) : metas[i].pubkey = k /\ metas[i].is_writable

\* Ord of Pubkey: the order of the bytes, first difference first.
KeyLess(a, b) ==
  \/ \E i \in 1..Len(b) :
       /\ i <= Len(a)
       /\ a[i] < b[i]
       /\ \A j \in 1..(i - 1) : a[j] = b[j]
  \/ /\ Len(a) < Len(b)
     /\ \A j \in 1..Len(a) : a[j] = b[j]

\* The keys of a set in ascending order, as iterating the BTreeMap of
\* CompiledKeys gives them.
RECURSIVE SortKeys(_)
SortKeys(keys) ==
  IF keys = {} THEN <<>>
  ELSE LET least == CHOOSE k \in keys : \A o \in keys \ {k} : KeyLess(k, o)
       IN  <<least>> \o SortKeys(keys \ {least})

\* The keys that must sign, in the order of the message's account keys: the
\* fee payer, the other writable signers by key, the read-only signers by
\* key.
RequiredSigners(instructions, payer) ==
  LET metas == AllMetas(instructions)
      keys  == {metas[i].pubkey : i \in 1..Len(metas)} \ {payer}
      ws    == {k \in keys : IsSignerKey(metas, k) /\ IsWritableKey(metas, k)}
      rs    == {k \in keys : IsSignerKey(metas, k) /\ ~IsWritableKey(metas, k)}
  IN  <<payer>> \o SortKeys(ws) \o SortKeys(rs)

\* Hash::default(), the blockhash of a message not yet signed.
DefaultHash == "default"

\* Message::new
MessageNew(instructions, payer) ==
  [signer_keys |-> RequiredSigners(instructions, payer),
   instructions |-> instructions,
   recent_blockhash |-> DefaultHash]

NoTx == [state |-> "None"]

\* Transaction::new_unsigned: one default signature per required signer.
NewUnsigned(message) ==
  [state |-> "Built", message |-> message,
   signatures |-> Rep(DefaultSignature, Len(message.signer_keys))]

\* Position of a keypair among the required signers, 0 when it is not one.
SignerPosition(message, kp) ==
  IF \E i \in 1..Len(message.signer_keys) : message.signer_keys[i] = KeypairPubkey(kp)
  THEN CHOOSE i \in 1..Len(message.signer_keys) : message.signer_keys[i] = KeypairPubkey(kp)
  ELSE 0

\* Transaction::is_signed
IsSigned(t) == \A i \in 1..Len(t.signatures) : t.signatures[i] # DefaultSignature

\* TrySign without the is_signed check: what try_partial_sign alone would do.
TrySignUnchecked(t, keypairs, recent_blockhash) ==
  IF \E j \in 1..Len(keypairs) : SignerPosition(t.message, keypairs[j]) = 0
  THEN [ok |-> FALSE, err |-> "KeypairPubkeyMismatch", tx |-> t]
  ELSE LET m == [t.message EXCEPT !.recent_blockhash = recent_blockhash]
           old == IF m = t.message THEN t.signatures
                  ELSE Rep(DefaultSignature, Len(t.signatures))
           sigs == [i \in 1..Len(old) |->
                      IF \E j \in 1..Len(keypairs) : SignerPosition(m, keypairs[j]) = i
                      THEN SignMessage(
                             keypairs[CHOOSE j \in 1..Len(keypairs) :
                                        SignerPosition(m, keypairs[j]) = i], m)
                      ELSE old[i]]
       IN  [ok |-> TRUE, err |-> "",
            tx |-> [t EXCEPT !.message = m, !.signatures = sigs, !.state = "Signed"]]

\* Transaction::try_sign: try_partial_sign, then is_signed.
TrySign(t, keypairs, recent_blockhash) ==
  IF \E j \in 1..Len(keypairs) : SignerPosition(t.message, keypairs[j]) = 0
  THEN [ok |-> FALSE, err |-> "KeypairPubkeyMismatch", tx |-> t]
  ELSE LET m == [t.message EXCEPT !.recent_blockhash = recent_blockhash]
           old == IF m = t.message THEN t.signatures
                  ELSE Rep(DefaultSignature, Len(t.signatures))
           sigs == [i \in 1..Len(old) |->
                      IF \E j \in 1..Len(keypairs) : SignerPosition(m, keypairs[j]) = i
                      THEN SignMessage(
                             keypairs[CHOOSE j \in 1..Len(keypairs) :
                                        SignerPosition(m, keypairs[j]) = i], m)
                      ELSE old[i]]
           signed == [t EXCEPT !.message = m, !.signatures = sigs]
       IN  IF IsSigned(signed)
           THEN [ok |-> TRUE, err |-> "", tx |-> [signed EXCEPT !.state = "Signed"]]
           ELSE [ok |-> FALSE, err |-> "NotEnoughSigners", tx |-> signed]

----------------------------------------------------------------------------
(* The ledger behind the ledger client.  It answers each call with any    *)
(* outcome a node can give; fees and balances of the payer are part of    *)
(* its freedom to reject.  A transaction is executed whole or not at all. *)

\* The blockhash the node hands out.
LatestBlockhash == "recent"

\* get_minimum_balance_for_rent_exemption, as the node computes it.
LedgerRentMinimum(space) == (128 + space) * 6960

NoMint == [initialized |-> FALSE]

AccountAt(accounts, address) == {a \in accounts : a.address = address}

\* One instruction on the accounts: [ok, accounts].
ExecuteInstruction(accounts, ix) ==
  CASE ix.data.op = "CreateAccount" ->
         LET to == ix.accounts[2].pubkey
         IN  IF AccountAt(accounts, to) # {}
             THEN [ok |-> FALSE, accounts |-> accounts]
             ELSE [ok |-> TRUE,
                   accounts |-> accounts \cup
                     {[address |-> to, owner |-> ix.data.owner,
                       lamports |-> ix.data.lamports, space |-> ix.data.space,
                       mint |-> NoMint]}]
    [] ix.data.op = "InitializeMint" ->
         LET at == AccountAt(accounts, ix.accounts[1].pubkey)
         IN  IF \E a \in at : /\ a.owner = ix.program_id
                              /\ a.space = MintLen
                              /\ a.lamports >= LedgerRentMinimum(a.space)
                              /\ a.mint = NoMint
             THEN [ok |-> TRUE,
                   accounts |-> (accounts \ at) \cup
                     {[a EXCEPT !.mint =
                         [initialized |-> TRUE,
                          decimals |-> ix.data.decimals,
                          mint_authority |-> ix.data.mint_authority,
                          freeze_authority |-> ix.data.freeze_authority]] : a \in at}]
             ELSE [ok |-> FALSE, accounts |-> accounts]
    [] OTHER ->
         \* Transfer: both token accounts must exist; the model's ledger
         \* holds no token accounts.
         [ok |-> FALSE, accounts |-> accounts]

\* Instructions i.. of a transaction, in order; failAt names an instruction
\* the program rejects (0: none).
RECURSIVE ExecuteFrom(_, _, _, _)
ExecuteFrom(accounts, instructions, i, failAt) ==
  IF i > Len(instructions) THEN [ok |-> TRUE, accounts |-> accounts]
  ELSE IF i = failAt THEN [ok |-> FALSE, accounts |-> accounts]
  ELSE LET step == ExecuteInstruction(accounts, instructions[i])
       IN  IF step.ok THEN ExecuteFrom(step.accounts, instructions, i + 1, failAt)
           ELSE step

\* The node's signature and blockhash check of a submitted transaction.
LedgerVerifies(t) ==
  /\ t.message.recent_blockhash = LatestBlockhash
  /\ \A i \in 1..Len(t.message.signer_keys) :
       VerifySignature(t.signatures[i], t.message.signer_keys[i], t.message)

\* The whole transaction on the ledger: every instruction took effect, or
\* the accounts are as before.
LedgerProcess(accounts, t, failAt) ==
  IF ~LedgerVerifies(t) THEN [ok |-> FALSE, accounts |-> accounts]
  ELSE LET run == ExecuteFrom(accounts, t.message.instructions, 1, failAt)
       IN  IF run.ok THEN run ELSE [ok |-> FALSE, accounts |-> accounts]

----------------------------------------------------------------------------
(* Requests *)

AddrOwner == Rep("1", 32)
AddrMint == Rep("1", 31) \o <<"2">>
AddrDest == Rep("1", 30) \o <<"5", "R">>
BadChar == Rep("1", 31) \o <<"0">>
TooShort == <<"a", "b", "c">>
TooLong == Rep("1", 45)

NoRequest == [route |-> "none"]

KeypairBodies == {[route |-> "/keypair"]}

\* CreateTokenRequest
CreateTokenBodies ==
  {[route |-> "/token/create", mint_authority |-> AddrOwner, mint |-> AddrMint,
    decimals |-> d] : d \in {-1, 6, 300}}

\* TransferRequest
TransferBodies ==
  {[route |-> "/send/token", destination |-> d, mint |-> m, owner |-> o,
    amount |-> 5] :
     d \in {AddrDest, BadChar}, m \in {AddrMint, TooShort}, o \in {AddrOwner, TooLong}}

Bodies == KeypairBodies \cup CreateTokenBodies \cup TransferBodies

\* The address texts that occur in request bodies, and Pubkey::from_str of
\* each of them.
AddressTexts == {AddrOwner, AddrMint, AddrDest, BadChar, TooShort, TooLong}

PubkeyFromStrTable == [s \in AddressTexts |-> PubkeyFromStr(s)]

ParsedPubkey(s) == PubkeyFromStrTable[s]

\* The endpoint of the shared client of AppState, and the one
\* execute_spl_transfer builds its own client for.
ConfiguredRpc == "rpc"
DevnetRpc == "https://api.devnet.solana.com"

\* The texts keypair returns for the keypair of each request.
KeypairTextTable ==
  [r \in Reqs |-> [pubkey |-> KeypairPubkeyToString(KeypairNew(r, 1)),
                   secret |-> KeypairToBase58String(KeypairNew(r, 1))]]

\* The messages, the keypairs and the texts of the requests to
\* /message/sign and /message/verify: the keypairs of the first two
\* requests to /keypair, their signatures, and malformed texts.
MsgEmpty == <<>>
MsgHello == <<"h", "e", "l", "l", "o">>
Messages == {MsgEmpty, MsgHello}

KeyA == KeypairNew(1, 1)
KeyB == KeypairNew(2, 1)

SecretA == KeypairToBase58String(KeyA)
SecretB == KeypairToBase58String(KeyB)
PubkeyA == KeypairPubkeyToString(KeyA)
PubkeyB == KeypairPubkeyToString(KeyB)
SigAHello == SignatureToString(SignMessage(KeyA, AsBytes(MsgHello)))
SigAEmpty == SignatureToString(SignMessage(KeyA, AsBytes(MsgEmpty)))
SigBHello == SignatureToString(SignMessage(KeyB, AsBytes(MsgHello)))
SigTooLong == Rep("1", MAX_BASE58_SIGNATURE_LEN + 1)

\* SignMessageRequest
SignBodies ==
  {[route |-> "/message/sign", message |-> m, secret |-> s] :
     m \in Messages, s \in {SecretA, SecretB}}
  \cup {[route |-> "/message/sign", message |-> MsgHello, secret |-> s] :
          s \in {BadChar, TooShort}}

\* VerifyMessageRequest
VerifyBodies ==
  {[route |-> "/message/verify", message |-> m, signature |-> g, pubkey |-> k] :
     m \in Messages,
     g \in {SigAHello, SigAEmpty, SigBHello, BadChar, TooShort, SigTooLong},
     k \in {PubkeyA, PubkeyB, BadChar, TooLong}}

----------------------------------------------------------------------------
(* State *)

VARIABLES
  req,        \* req[r]: the body of request r, NoRequest before it arrives
  pc,         \* pc[r]: where the handler of request r stands
  calls,      \* calls[r]: the ledger client calls of request r, in order
  tx,         \* tx[r]: the transaction of request r
  submitted,  \* submitted[r]: the transactions request r handed to the ledger
  resp,       \* resp[r]: the response the handler returned
  ledger,     \* the accounts on the ledger
  aborted     \* aborted[r]: the caller of request r has gone away

vars == <<req, pc, calls, tx, submitted, resp, ledger, aborted>>

NoResponse == [status |-> 0, body |-> <<>>]

\* The empty JSON object.
EmptyObject == <<>>

Init ==
  /\ req = [r \in Reqs |-> NoRequest]
  /\ pc = [r \in Reqs |-> "idle"]
  /\ calls = [r \in Reqs |-> <<>>]
  /\ tx = [r \in Reqs |-> NoTx]
  /\ submitted = [r \in Reqs |-> <<>>]
  /\ resp = [r \in Reqs |-> NoResponse]
  /\ ledger = {}
  /\ aborted = [r \in Reqs |-> FALSE]

\* A handler between its first and its last statement occupies the thread
\* that runs it: the ledger client's calls are synchronous, the handlers
\* have no await point before they return.
Holding == {r \in Reqs : pc[r] \in {"rent", "blockhash", "sign", "send", "confirm"}}

WorkerFree == Cardinality(Holding) < NumWorkers

\* A call of the ledger client with its argument, not yet answered.
NewCallWith(endpoint, method, arg) ==
  [endpoint |-> endpoint, method |-> method, arg |-> arg, result |-> "pending",
   error |-> "", value |-> <<>>]

NewCall(endpoint, method) == NewCallWith(endpoint, method, <<>>)

LastCall(r) == calls[r][Len(calls[r])]

\* calls[r] with its pending call answered.
Answered(r, result, error, value) ==
  [calls[r] EXCEPT ![Len(calls[r])] =
     [endpoint |-> @.endpoint, method |-> @.method, arg |-> @.arg,
      result |-> result, error |-> error, value |-> value]]

\* The client a flow calls the ledger through.
ClientEndpoint(route) ==
  IF route = "/token/create" THEN ConfiguredRpc ELSE DevnetRpc

\* AfterLedgerError with a failed submission sent again.
RetryAfterLedgerError(route, method) ==
  IF method = "send_and_confirm_transaction" THEN "send"
  ELSE IF route = "/token/create" THEN "panicked" ELSE "done"

\* Where the handler goes when a ledger call returns an error: create_token
\* unwraps the result and panics, execute_spl_transfer propagates it with `?`
\* and send_spl_token answers.  Neither calls the ledger again.
AfterLedgerError(route, method) ==
  IF route = "/token/create" THEN "panicked" ELSE "done"

ErrorResponse(status, error, message) ==
  [status |-> status, body |-> [error |-> error, message |-> message]]

\* The three keypairs create_token generates.
PayerKeypair(r) == KeypairNew(r, 1)
MintAuthorityKeypair(r) == KeypairNew(r, 2)
MintKeypair(r) == KeypairNew(r, 3)

\* CreateTokenInstructions with the mint initialisation left for a later
\* transaction.
CreateAccountOnly(r, mint_rent) ==
  << SystemCreateAccount(KeypairPubkey(PayerKeypair(r)),
                         KeypairPubkey(MintKeypair(r)),
                         mint_rent, MintLen, TokenProgramId) >>

\* CreateTokenInstructions with a fixed deposit in place of the queried
\* rent minimum.
CreateTokenFixedDeposit(r, mint_rent) ==
  << SystemCreateAccount(KeypairPubkey(PayerKeypair(r)),
                         KeypairPubkey(MintKeypair(r)),
                         1000000, MintLen, TokenProgramId),
     InitializeMint(TokenProgramId,
                    KeypairPubkey(MintKeypair(r)),
                    KeypairPubkey(MintAuthorityKeypair(r)),
                    KeypairPubkey(MintAuthorityKeypair(r)),
                    9) >>

\* The instructions of create_token's transaction.
CreateTokenInstructions(r, mint_rent) ==
  << SystemCreateAccount(KeypairPubkey(PayerKeypair(r)),
                         KeypairPubkey(MintKeypair(r)),
                         mint_rent, MintLen, TokenProgramId),
     InitializeMint(TokenProgramId,
                    KeypairPubkey(MintKeypair(r)),
                    KeypairPubkey(MintAuthorityKeypair(r)),
                    KeypairPubkey(MintAuthorityKeypair(r)),
                    9) >>

\* The instruction of execute_spl_transfer's transaction.
TransferInstructions(body) ==
  LET owner == ParsedPubkey(body.owner).key
      destination == ParsedPubkey(body.destination).key
      mint == ParsedPubkey(body.mint).key
  IN  << TokenTransfer(TokenProgramId,
                       GetAssociatedTokenAddress(owner, mint),
                       GetAssociatedTokenAddress(destination, mint),
                       owner, <<>>, body.amount) >>

Instructions(r) ==
  IF req[r].route = "/token/create"
  THEN CreateTokenInstructions(r, calls[r][1].value)
  ELSE TransferInstructions(req[r])

FeePayer(r) ==
  IF req[r].route = "/token/create" THEN KeypairPubkey(PayerKeypair(r))
  ELSE ParsedPubkey(req[r].owner).key

\* SigningKeypairs with the mint authority added to create_token's signers.
SigningKeypairsWithAuthority(r) ==
  IF req[r].route = "/token/create"
  THEN <<PayerKeypair(r), MintKeypair(r), MintAuthorityKeypair(r)>>
  ELSE <<>>

\* The keypairs handed to Transaction::new_signed_with_payer.
SigningKeypairs(r) ==
  IF req[r].route = "/token/create" THEN <<PayerKeypair(r), MintKeypair(r)>>
  ELSE <<>>

----------------------------------------------------------------------------
(* Actions *)

\* A request arrives and waits for a thread.
Arrive(r) ==
  /\ pc[r] = "idle"
  /\ \E body \in Bodies : req' = [req EXCEPT ![r] = body]
  /\ pc' = [pc EXCEPT ![r] = "queued"]
  /\ UNCHANGED <<calls, tx, submitted, resp, ledger, aborted>>

\* keypair: the whole handler.
Keypair(r) ==
  /\ pc[r] = "queued" /\ req[r].route = "/keypair" /\ WorkerFree
  /\ LET keypair == KeypairNew(r, 1)
     IN  resp' = [resp EXCEPT ![r] =
           [status |-> 200,
            body |-> [success |-> TRUE,
                      data |-> [pubkey |-> KeypairTextTable[r].pubkey,
                                secret |-> KeypairTextTable[r].secret]]]]
  /\ pc' = [pc EXCEPT ![r] = "done"]
  /\ UNCHANGED <<req, calls, tx, submitted, ledger, aborted>>

\* create_token up to its first ledger call: the keypairs, then the rent
\* query on the shared client.
CreateToken(r) ==
  /\ pc[r] = "queued" /\ req[r].route = "/token/create" /\ WorkerFree
  /\ calls' = [calls EXCEPT ![r] =
       Append(@, NewCallWith(ClientEndpoint(req[r].route),
                             "get_minimum_balance_for_rent_exemption", MintLen))]
  /\ pc' = [pc EXCEPT ![r] = "rent"]
  /\ UNCHANGED <<req, tx, submitted, resp, ledger, aborted>>

\* What a handler does with the error of its pending ledger call.
Fail(r, error) ==
  LET next == AfterLedgerError(req[r].route, LastCall(r).method)
  IN  /\ calls' = [calls EXCEPT ![r] = Answered(r, "err", error, <<>>)]
      /\ pc' = [pc EXCEPT ![r] = next]
      /\ resp' = IF next = "done"
                 THEN [resp EXCEPT ![r] =
                         ErrorResponse(500, "transfer_failed",
                                       <<"Transfer failed: ", error>>)]
                 ELSE resp

\* The rent query returns; on Ok the handler builds its two instructions
\* and asks for the latest blockhash.
RentReturns(r) ==
  /\ pc[r] = "rent"
  /\ \/ /\ calls' = [calls EXCEPT ![r] =
             Append(Answered(r, "ok", "", LedgerRentMinimum(LastCall(r).arg)),
                    NewCall(ClientEndpoint(req[r].route), "get_latest_blockhash"))]
        /\ pc' = [pc EXCEPT ![r] = "blockhash"]
        /\ resp' = resp
     \/ Fail(r, "LedgerUnavailable")
  /\ UNCHANGED <<req, tx, submitted, ledger, aborted>>

\* ParseError without the check of the owner.
ParseErrorSkipsOwner(body) ==
  IF ~ParsedPubkey(body.destination).ok
  THEN [error |-> "invalid_destination", message |-> "Invalid destination address format"]
  ELSE IF ~ParsedPubkey(body.mint).ok
  THEN [error |-> "invalid_mint", message |-> "Invalid mint address format"]
  ELSE [error |-> "", message |-> ""]

\* The address of a TransferRequest that send_spl_token rejects: the first
\* of destination, mint and owner that does not parse; error "" when all do.
ParseError(body) ==
  IF ~ParsedPubkey(body.destination).ok
  THEN [error |-> "invalid_destination", message |-> "Invalid destination address format"]
  ELSE IF ~ParsedPubkey(body.mint).ok
  THEN [error |-> "invalid_mint", message |-> "Invalid mint address format"]
  ELSE IF ~ParsedPubkey(body.owner).ok
  THEN [error |-> "invalid_owner", message |-> "Invalid owner address format"]
  ELSE [error |-> "", message |-> ""]

\* send_spl_token up to the first ledger call of execute_spl_transfer: the
\* three addresses are parsed in order, then the client is built, the
\* instruction is built and the latest blockhash is asked for.
SendSplToken(r) ==
  /\ pc[r] = "queued" /\ req[r].route = "/send/token" /\ WorkerFree
  /\ IF ParseError(req[r]).error # ""
     THEN /\ resp' = [resp EXCEPT ![r] =
               ErrorResponse(400, ParseError(req[r]).error, ParseError(req[r]).message)]
          /\ pc' = [pc EXCEPT ![r] = "done"]
          /\ calls' = calls
     ELSE /\ calls' = [calls EXCEPT ![r] =
               Append(@, NewCall(ClientEndpoint(req[r].route), "get_latest_blockhash"))]
          /\ pc' = [pc EXCEPT ![r] = "blockhash"]
          /\ resp' = resp
  /\ UNCHANGED <<req, tx, submitted, ledger, aborted>>

\* get_latest_blockhash returns; on Ok new_signed_with_payer compiles the
\* message and creates the unsigned transaction.
BlockhashReturns(r) ==
  /\ pc[r] = "blockhash"
  /\ \/ /\ calls' = [calls EXCEPT ![r] = Answered(r, "ok", "", LatestBlockhash)]
        /\ tx' = [tx EXCEPT ![r] = NewUnsigned(MessageNew(Instructions(r), FeePayer(r)))]
        /\ pc' = [pc EXCEPT ![r] = "sign"]
        /\ resp' = resp
     \/ /\ Fail(r, "LedgerUnavailable")
        /\ tx' = tx
  /\ UNCHANGED <<req, submitted, ledger, aborted>>

\* AfterSign with the error of try_sign ignored.
AfterSignIgnoringError(ok) == "send"

\* Where the handler goes after Transaction::sign: sign panics when try_sign
\* returns an error.
AfterSign(ok) == IF ok THEN "send" ELSE "panicked"

\* new_signed_with_payer signs the transaction with the keypairs it was given.
SignTransaction(r) ==
  /\ pc[r] = "sign"
  /\ LET signed == TrySign(tx[r], SigningKeypairs(r), LastCall(r).value)
     IN  /\ tx' = [tx EXCEPT ![r] = signed.tx]
         /\ pc' = [pc EXCEPT ![r] = AfterSign(signed.ok)]
  /\ UNCHANGED <<req, calls, submitted, resp, ledger, aborted>>

\* send_and_confirm_transaction is called with the transaction.
SendAndConfirm(r) ==
  /\ pc[r] = "send"
  /\ calls' = [calls EXCEPT ![r] =
       Append(@, NewCall(ClientEndpoint(req[r].route), "send_and_confirm_transaction"))]
  /\ submitted' = [submitted EXCEPT ![r] = Append(@, tx[r])]
  /\ tx' = [tx EXCEPT ![r].state = "Submitted"]
  /\ pc' = [pc EXCEPT ![r] = "confirm"]
  /\ UNCHANGED <<req, resp, ledger, aborted>>

\* The response of a handler whose transaction was confirmed.
SuccessResponse(route, signature) ==
  IF route = "/token/create"
  THEN [status |-> 200, body |-> EmptyObject]
  ELSE [status |-> 200,
        body |-> [success |-> TRUE, signature |-> signature,
                  message |-> "Transfer completed successfully"]]

\* send_and_confirm_transaction returns: confirmed with the transaction's
\* first signature, or failed because the node was unreachable, rejected the
\* transaction, or did not confirm it in time (it may have landed or not).
SendAndConfirmReturns(r) ==
  /\ pc[r] = "confirm"
  /\ \E failAt \in 0..Len(tx[r].message.instructions), landed \in BOOLEAN,
        outcome \in {"ok", "LedgerUnavailable", "LedgerRejected", "LedgerTimeout"} :
       LET run == LedgerProcess(ledger, tx[r], failAt)
       IN  \/ /\ outcome = "ok" /\ run.ok /\ landed
              /\ ledger' = run.accounts
              /\ calls' = [calls EXCEPT ![r] = Answered(r, "ok", "", tx[r].signatures[1])]
              /\ tx' = [tx EXCEPT ![r].state = "Confirmed"]
              /\ resp' = [resp EXCEPT ![r] =
                   SuccessResponse(req[r].route, tx[r].signatures[1])]
              /\ pc' = [pc EXCEPT ![r] = "done"]
           \/ /\ outcome \in {"LedgerUnavailable", "LedgerRejected"} /\ ~landed
              /\ outcome = "LedgerUnavailable" => failAt = 0
              /\ ledger' = ledger
              /\ tx' = [tx EXCEPT ![r].state = "Failed"]
              /\ Fail(r, outcome)
           \/ /\ outcome = "LedgerTimeout" /\ failAt = 0
              /\ ledger' = IF landed /\ run.ok THEN run.accounts ELSE ledger
              /\ tx' = [tx EXCEPT ![r].state = "Failed"]
              /\ Fail(r, outcome)
  /\ UNCHANGED <<req, submitted, aborted>>

Next ==
  \E r \in Reqs :
    \/ Arrive(r)
    \/ Keypair(r)
    \/ CreateToken(r)
    \/ RentReturns(r)
    \/ SendSplToken(r)
    \/ BlockhashReturns(r)
    \/ SignTransaction(r)
    \/ SendAndConfirm(r)
    \/ SendAndConfirmReturns(r)

Spec == Init /\ [][Next]_vars

\* AfterAbort with the handler dropped when its caller goes away.
AbortDropsHandler(p) == "cancelled"

\* Where a handler stands after its caller went away: the handlers have no
\* await point at which the runtime could drop them, so the handler goes on
\* from where it is.
AfterAbort(p) == p

\* The caller of a request goes away while send_and_confirm_transaction
\* has not returned.
Abort(r) ==
  /\ pc[r] = "confirm" /\ ~aborted[r]
  /\ aborted' = [aborted EXCEPT ![r] = TRUE]
  /\ pc' = [pc EXCEPT ![r] = AfterAbort(pc[r])]
  /\ UNCHANGED <<req, calls, tx, submitted, resp, ledger>>

\* A response reaches the caller when the handler returned one and the
\* caller is still there.
Delivered(r) == resp[r] # NoResponse /\ ~aborted[r]

CancelNext == Next \/ \E r \in Reqs : Abort(r)

\* The service with callers that may go away during a submission.
CancelSpec == Init /\ [][CancelNext]_vars

\* The steps a handler takes by itself.  The runtime runs a handler that is
\* ready whenever a thread is free; the callers need not send requests and
\* the ledger need not answer.
HandlerStep(r) ==
  \/ Keypair(r)
  \/ CreateToken(r)
  \/ SendSplToken(r)
  \/ SignTransaction(r)
  \/ SendAndConfirm(r)

FairSpec == Spec /\ \A r \in Reqs : WF_vars(HandlerStep(r))

----------------------------------------------------------------------------
(* The message handlers.  Neither calls the ledger client nor awaits: a    *)
(* request is extracted and handled in one step.                           *)

\* sign_message: its response, or panicked where the handler aborts.
SignMessageOutcome(body) ==
  LET parsed == KeypairFromBase58String(body.secret)
      message == AsBytes(body.message)
      signature == SignMessage(parsed.kp, message)
  IN  IF ~parsed.ok THEN [panicked |-> TRUE, resp |-> NoResponse]
      ELSE [panicked |-> FALSE,
            resp |-> [status |-> 200,
                      body |-> [success |-> TRUE,
                                data |-> [signature |-> SignatureToString(signature),
                                          public_key |-> KeypairPubkeyToString(parsed.kp),
                                          message |-> message]]]]

\* The three responses of verify_message.
VerifyValidResponse ==
  [status |-> 200,
   body |-> [success |-> TRUE,
             data |-> [valid |-> TRUE,
                       message |-> "Hello, Solana!",
                       pubkey |-> "base58-encoded-public-key"]]]

InvalidSignatureResponse ==
  [status |-> 400, body |-> [success |-> FALSE, error |-> "Invalid signature"]]

MissingFieldsResponse ==
  [status |-> 400, body |-> [success |-> FALSE, error |-> "Missing Fields"]]

\* VerifyMessageOutcome with the public key unwrapped.
VerifyMessageUnwrapsPubkey(body) ==
  LET message == AsBytes(body.message)
      signature == SignatureFromStr(body.signature)
      public_key == PubkeyFromStr(body.pubkey)
  IN  IF ~public_key.ok THEN [panicked |-> TRUE, resp |-> NoResponse]
      ELSE IF ~signature.ok
      THEN [panicked |-> FALSE, resp |-> MissingFieldsResponse]
      ELSE IF SignatureVerify(signature.bytes, public_key.key, message)
      THEN [panicked |-> FALSE, resp |-> VerifyValidResponse]
      ELSE [panicked |-> FALSE, resp |-> InvalidSignatureResponse]

\* verify_message: its response.
VerifyMessageOutcome(body) ==
  LET message == AsBytes(body.message)
      signature == SignatureFromStr(body.signature)
      public_key == PubkeyFromStr(body.pubkey)
  IN  IF signature.ok /\ public_key.ok
      THEN IF SignatureVerify(signature.bytes, public_key.key, message)
           THEN [panicked |-> FALSE, resp |-> VerifyValidResponse]
           ELSE [panicked |-> FALSE, resp |-> InvalidSignatureResponse]
      ELSE [panicked |-> FALSE, resp |-> MissingFieldsResponse]

SignMessageTable == [body \in SignBodies |-> SignMessageOutcome(body)]
VerifyMessageTable == [body \in VerifyBodies |-> VerifyMessageOutcome(body)]

Handled(r, body, outcome) ==
  /\ pc[r] = "idle"
  /\ req' = [req EXCEPT ![r] = body]
  /\ resp' = [resp EXCEPT ![r] = outcome.resp]
  /\ pc' = [pc EXCEPT ![r] = IF outcome.panicked THEN "panicked" ELSE "done"]
  /\ UNCHANGED <<calls, tx, submitted, ledger, aborted>>

SignMessageHandler(r) ==
  \E body \in SignBodies : Handled(r, body, SignMessageTable[body])

VerifyMessageHandler(r) ==
  \E body \in VerifyBodies : Handled(r, body, VerifyMessageTable[body])

MessageNext ==
  \E r \in Reqs :
    \/ SignMessageHandler(r)
    \/ VerifyMessageHandler(r)

MessageSpec == Init /\ [][MessageNext]_vars

----------------------------------------------------------------------------
(* Properties *)

CreateReq(r) == req[r].route = "/token/create"
TransferReq(r) == req[r].route = "/send/token"

Terminated(r) == pc[r] \in {"done", "panicked"}

\* The address texts of the request bodies that are well-formed.
WellFormedAddresses == {AddrOwner, AddrMint, AddrDest}

WellFormedTransfer(r) ==
  /\ TransferReq(r)
  /\ {req[r].destination, req[r].mint, req[r].owner} \subseteq WellFormedAddresses

CallsOf(r, method) == {i \in 1..Len(calls[r]) : calls[r][i].method = method}
FailedCalls(r) == {i \in 1..Len(calls[r]) : calls[r][i].result = "err"}

\* The accounts some instruction of the transaction marks signer.
MarkedSigners(t) ==
  LET metas == AllMetas(t.message.instructions)
  IN  {metas[i].pubkey : i \in {j \in 1..Len(metas) : metas[j].is_signer}}

CarriesSignatureOf(t, k) ==
  \E i \in 1..Len(t.signatures) : VerifySignature(t.signatures[i], k, t.message)

\* C1: every transaction handed to the ledger client, by create_token or by
\* execute_spl_transfer, carries a valid signature of every account its
\* instructions mark signer and of the fee payer.
C1_SubmittedFullySigned ==
  \A r \in Reqs : \A i \in 1..Len(submitted[r]) :
    \A k \in MarkedSigners(submitted[r][i]) \cup {FeePayer(r)} :
      CarriesSignatureOf(submitted[r][i], k)

C1_Witness ==
  \E r \in Reqs :
    /\ CreateReq(r) /\ Len(submitted[r]) = 1
    /\ Cardinality(MarkedSigners(submitted[r][1])) = 2
    /\ FeePayer(r) \in MarkedSigners(submitted[r][1])

\* C2: a /send/token request with a malformed destination, mint or owner
\* makes no ledger call and ends with status 400; status 500 is answered
\* only after a ledger call of the request failed.
C2_MalformedAddressFailsFast ==
  \A r \in Reqs :
    TransferReq(r) =>
      /\ ~WellFormedTransfer(r) =>
           /\ calls[r] = <<>>
           /\ pc[r] \in {"queued", "done"}
           /\ pc[r] = "done" => resp[r].status = 400
      /\ resp[r].status = 500 => FailedCalls(r) # {}

C2_Witness ==
  \E r1, r2 \in Reqs :
    /\ TransferReq(r1) /\ ~WellFormedTransfer(r1)
    /\ pc[r1] = "done" /\ resp[r1].status = 400
    /\ TransferReq(r2) /\ resp[r2].status = 500

\* C3: a /token/create request whose decimals is outside 0..255 makes no
\* ledger call and is answered with the error InvalidParameter.
C3_DecimalsRejectedBeforeLedger ==
  \A r \in Reqs :
    (CreateReq(r) /\ req[r].decimals \notin 0..255) =>
      /\ calls[r] = <<>>
      /\ pc[r] \in {"queued", "done"}
      /\ pc[r] = "done" =>
           /\ resp[r].status >= 400
           /\ resp[r].body.error = "InvalidParameter"

\* C4: a request with a failed ledger call ends with an error response
\* that names the failure; its handler never panics.
C4_LedgerFailureIsReported ==
  \A r \in Reqs :
    FailedCalls(r) # {} =>
      /\ pc[r] = "done"
      /\ resp[r].status >= 500
      /\ \E i \in FailedCalls(r) :
           resp[r].body.message = <<"Transfer failed: ", calls[r][i].error>>

MintAddress(r) == KeypairPubkey(MintKeypair(r))

RejectedCreate(r) ==
  /\ CreateReq(r)
  /\ \E i \in CallsOf(r, "send_and_confirm_transaction") :
       calls[r][i].result = "err" /\ calls[r][i].error = "LedgerRejected"

\* C5: create_token submits createAccount and initializeMint for the same
\* account as the two instructions of one transaction; on the ledger the
\* account of a request's mint is absent or exists as an initialised mint,
\* and it is absent when the ledger rejected the transaction.
C5_CreateMintAtomic ==
  \A r \in Reqs :
    CreateReq(r) =>
      /\ \A i \in 1..Len(submitted[r]) :
           LET ixs == submitted[r][i].message.instructions
           IN  /\ Len(ixs) = 2
               /\ ixs[1].data.op = "CreateAccount"
               /\ ixs[2].data.op = "InitializeMint"
               /\ ixs[1].accounts[2].pubkey = MintAddress(r)
               /\ ixs[2].accounts[1].pubkey = MintAddress(r)
      /\ \A a \in AccountAt(ledger, MintAddress(r)) : a.mint.initialized
      /\ RejectedCreate(r) => AccountAt(ledger, MintAddress(r)) = {}

C5_Witness ==
  \E r1, r2 \in Reqs :
    /\ RejectedCreate(r1) /\ AccountAt(ledger, MintAddress(r1)) = {}
    /\ CreateReq(r2) /\ tx[r2].state = "Confirmed"
    /\ \E a \in AccountAt(ledger, MintAddress(r2)) : a.mint.initialized

TxEdges ==
  { <<"None", "Built">>, <<"Built", "Signed">>, <<"Signed", "Submitted">>,
    <<"Submitted", "Confirmed">>, <<"Submitted", "Failed">> }

\* The blockhashes the ledger client has returned to request r.
BlockhashesFetched(r) ==
  {calls[r][i].value :
     i \in {j \in CallsOf(r, "get_latest_blockhash") : calls[r][j].result = "ok"}}

C6_Step(r) ==
  /\ tx'[r].state # tx[r].state => <<tx[r].state, tx'[r].state>> \in TxEdges
  /\ (tx[r].state # "Signed" /\ tx'[r].state = "Signed") =>
       /\ tx'[r].message.recent_blockhash \in BlockhashesFetched(r)
       /\ IsSigned(tx'[r])
  /\ submitted'[r] # submitted[r] =>
       /\ tx[r].state = "Signed" /\ tx'[r].state = "Submitted"
       /\ IsSigned(tx[r])
       /\ submitted[r] = <<>> /\ submitted'[r] = <<tx[r]>>
  /\ tx'[r].state = "Submitted" /\ tx[r].state # "Submitted" =>
       submitted'[r] # submitted[r]
  /\ tx[r].state \in {"Confirmed", "Failed"} =>
       /\ tx'[r] = tx[r]
       /\ submitted'[r] = submitted[r]
       /\ calls'[r] = calls[r]

\* C6: a transaction changes state only along None -> Built -> Signed ->
\* Submitted -> Confirmed or Failed; it is signed, completely, with a
\* blockhash the ledger client returned before; it is handed to the ledger
\* once, from Signed; after Confirmed or Failed nothing more happens to it.
C6_TransactionLifecycle == [][\A r \in Reqs : C6_Step(r)]_vars

C6_Witness ==
  \E r1, r2 \in Reqs :
    /\ tx[r1].state = "Confirmed" /\ pc[r1] = "done"
    /\ tx[r2].state = "Failed" /\ Len(submitted[r2]) = 1

FailedSubmissions(r) ==
  {i \in CallsOf(r, "send_and_confirm_transaction") : calls[r][i].result = "err"}

\* C7: a request submits at most one transaction, with at most one call of
\* send_and_confirm_transaction; when that call failed the handler has
\* ended and its transaction stays Failed.
C7_NoRetry ==
  \A r \in Reqs :
    /\ Len(submitted[r]) <= 1
    /\ Cardinality(CallsOf(r, "send_and_confirm_transaction")) <= 1
    /\ FailedSubmissions(r) # {} => Terminated(r) /\ tx[r].state = "Failed"

C7_Witness ==
  \E r1, r2 \in Reqs :
    /\ \E i \in FailedSubmissions(r1) : calls[r1][i].error = "LedgerRejected"
    /\ \E i \in FailedSubmissions(r2) : calls[r2][i].error = "LedgerTimeout"
    /\ Len(submitted[r1]) = 1 /\ Len(submitted[r2]) = 1

\* The keypairs given to the signing cover the required signers.
CoversRequiredSigners(r) ==
  \A k \in MarkedSigners(tx[r]) \cup {FeePayer(r)} :
    \E j \in 1..Len(SigningKeypairs(r)) : KeypairPubkey(SigningKeypairs(r)[j]) = k

SignAttempted(r) == tx[r].state # "None" /\ pc[r] # "sign"

\* C8: when a transaction was signed with keypairs that do not cover its
\* required signers, the transaction is not Signed and the request ends
\* with the reported error MissingSigner, not with a panic.
C8_MissingSignerReported ==
  \A r \in Reqs :
    (SignAttempted(r) /\ ~CoversRequiredSigners(r)) =>
      /\ pc[r] = "done"
      /\ tx[r].state = "Built"
      /\ resp[r].status >= 400
      /\ resp[r].body.error = "MissingSigner"

\* C9: a /send/token request with well-formed addresses whose handler has
\* ended without a failed ledger call was answered with success and the
\* identifier of its confirmed transfer transaction, signed by the owner.
C9_TransferSucceeds ==
  \A r \in Reqs :
    (WellFormedTransfer(r) /\ Terminated(r) /\ FailedCalls(r) = {}) =>
      /\ pc[r] = "done"
      /\ tx[r].state = "Confirmed"
      /\ resp[r].status = 200
      /\ resp[r].body.success
      /\ resp[r].body.signature = tx[r].signatures[1]
      /\ CarriesSignatureOf(tx[r], ParsedPubkey(req[r].owner).key)

\* C10: a /keypair request that waits for a thread is eventually served,
\* however long the ledger takes to answer the other requests.
C10_UnrelatedRequestServed ==
  \A r \in Reqs :
    (pc[r] = "queued" /\ req[r].route = "/keypair") ~> (pc[r] = "done")

\* C11: after the caller went away during a submission, the request has
\* made exactly one submission with one call of
\* send_and_confirm_transaction, the handler goes on until that call has
\* returned with the ledger's outcome, and no response is delivered.
C11_AbortedSubmissionRunsOnce ==
  \A r \in Reqs :
    aborted[r] =>
      /\ Len(submitted[r]) = 1
      /\ Cardinality(CallsOf(r, "send_and_confirm_transaction")) = 1
      /\ pc[r] \in {"confirm", "done", "panicked"}
      /\ pc[r] # "confirm" =>
           /\ LastCall(r).result # "pending"
           /\ tx[r].state \in {"Confirmed", "Failed"}
      /\ ~Delivered(r)

C11_Witness ==
  \E r \in Reqs :
    /\ aborted[r] /\ tx[r].state = "Confirmed"
    /\ resp[r] # NoResponse
    /\ AccountAt(ledger, MintAddress(r)) # {}

\* C16: the response of a /token/create request whose transaction was
\* confirmed reports success and carries the address of the new mint and
\* the identifier of the transaction.
C16_CreateResponseCarriesMint ==
  \A r \in Reqs :
    (CreateReq(r) /\ pc[r] = "done" /\ tx[r].state = "Confirmed") =>
      /\ resp[r].status = 200
      /\ {"success", "mintAddress", "signature"} \subseteq DOMAIN resp[r].body
      /\ resp[r].body.success
      /\ resp[r].body.mintAddress = MintAddress(r)
      /\ resp[r].body.signature = tx[r].signatures[1]

\* C17: the initializeMint instruction of every transaction /token/create
\* submits carries the decimals and the mint authority of the request body.
C17_MintParametersFromRequest ==
  \A r \in Reqs :
    CreateReq(r) =>
      \A i \in 1..Len(submitted[r]) :
        LET init == submitted[r][i].message.instructions[2].data
        IN  /\ init.decimals = req[r].decimals
            /\ init.mint_authority = ParsedPubkey(req[r].mint_authority).key

\* C18: when create_token has built its transaction, the rent minimum was
\* returned by the ledger client before, for exactly the space the
\* createAccount instruction asks for, and the lamports of the instruction
\* are at least that minimum.
C18_RentQueriedForSpace ==
  \A r \in Reqs :
    (CreateReq(r) /\ tx[r].state # "None") =>
      LET create == tx[r].message.instructions[1].data
          query == calls[r][1]
      IN  /\ create.op = "CreateAccount"
          /\ query.method = "get_minimum_balance_for_rent_exemption"
          /\ query.result = "ok"
          /\ query.arg = create.space
          /\ create.lamports >= query.value

C18_Witness ==
  \E r \in Reqs :
    /\ CreateReq(r) /\ tx[r].state = "Signed"
    /\ calls[r][1].arg = MintLen
    /\ tx[r].message.instructions[1].data.lamports = LedgerRentMinimum(MintLen)

\* C19 as stated: every transaction create_token submits carries a
\* signature of the mint authority whenever the mint authority is not the
\* payer.
C19_MintAuthoritySigns ==
  \A r \in Reqs :
    CreateReq(r) =>
      \A i \in 1..Len(submitted[r]) :
        KeypairPubkey(MintAuthorityKeypair(r)) # FeePayer(r) =>
          CarriesSignatureOf(submitted[r][i], KeypairPubkey(MintAuthorityKeypair(r)))

\* C19, amended: once create_token has signed, its transaction is signed,
\* with valid signatures of exactly the payer and the new mint account; the
\* mint authority, a keypair other than the payer, is named in
\* initializeMint and does not sign.
C19_PayerAndMintSign ==
  \A r \in Reqs :
    (CreateReq(r) /\ SignAttempted(r)) =>
      /\ tx[r].state # "Built"
      /\ {tx[r].signatures[i].signer : i \in 1..Len(tx[r].signatures)}
           = {FeePayer(r), MintAddress(r)}
      /\ CarriesSignatureOf(tx[r], FeePayer(r))
      /\ CarriesSignatureOf(tx[r], MintAddress(r))
      /\ KeypairPubkey(MintAuthorityKeypair(r)) # FeePayer(r)
      /\ tx[r].message.instructions[2].data.mint_authority
           = KeypairPubkey(MintAuthorityKeypair(r))
      /\ ~CarriesSignatureOf(tx[r], KeypairPubkey(MintAuthorityKeypair(r)))

C19_Witness ==
  \E r \in Reqs :
    /\ CreateReq(r) /\ tx[r].state = "Submitted"
    /\ Len(tx[r].signatures) = 2
    /\ ~CarriesSignatureOf(tx[r], KeypairPubkey(MintAuthorityKeypair(r)))

\* C20: every ledger client call of every request goes through the client
\* of the configured rpc endpoint.
C20_SingleSharedClient ==
  \A r \in Reqs : \A i \in 1..Len(calls[r]) :
    calls[r][i].endpoint = ConfiguredRpc

SignReq(r) == req[r].route = "/message/sign"
VerifyReq(r) == req[r].route = "/message/verify"

\* The verify request r2 passes on what the sign request r1 was answered.
PassesOn(r1, r2) ==
  /\ SignReq(r1) /\ pc[r1] = "done" /\ resp[r1].status = 200
  /\ VerifyReq(r2) /\ Terminated(r2)
  /\ req[r2].message = req[r1].message
  /\ req[r2].signature = resp[r1].body.data.signature
  /\ req[r2].pubkey = resp[r1].body.data.public_key

\* C12: a sign request with the secret text of a generated keypair is
\* answered 200 with that keypair's public key, and a verify request that
\* passes on its signature and public key with the same message is answered
\* 200 with valid true, the empty message included.
C12_SignVerifyRoundTrip ==
  /\ \A r \in Reqs :
       (SignReq(r) /\ Terminated(r)) =>
         \A k \in Reqs :
           req[r].secret = KeypairTextTable[k].secret =>
             /\ pc[r] = "done"
             /\ resp[r].status = 200
             /\ resp[r].body.data.public_key = KeypairTextTable[k].pubkey
             /\ resp[r].body.data.message = AsBytes(req[r].message)
  /\ \A r1, r2 \in Reqs :
       PassesOn(r1, r2) =>
         /\ pc[r2] = "done"
         /\ resp[r2].status = 200
         /\ resp[r2].body.success
         /\ resp[r2].body.data.valid

C12_Witness ==
  \E r1, r2 \in Reqs :
    /\ PassesOn(r1, r2)
    /\ req[r1].message = MsgEmpty
    /\ req[r1].secret = SecretA
    /\ resp[r2].status = 200

\* Where each well-formed signature text of the verify requests comes from.
SignatureOrigins ==
  {[signature |-> SigAHello, pubkey |-> PubkeyA, message |-> MsgHello],
   [signature |-> SigAEmpty, pubkey |-> PubkeyA, message |-> MsgEmpty],
   [signature |-> SigBHello, pubkey |-> PubkeyB, message |-> MsgHello]}

\* A verify request with a well-formed signature and a well-formed address,
\* the signature made by another key or over another message.
Mismatch(r) ==
  /\ VerifyReq(r)
  /\ req[r].pubkey \in {PubkeyA, PubkeyB}
  /\ \E o \in SignatureOrigins :
       /\ req[r].signature = o.signature
       /\ req[r].pubkey # o.pubkey \/ req[r].message # o.message

\* A verify request with a malformed signature or a malformed address.
Malformed(r) ==
  /\ VerifyReq(r)
  /\ \/ req[r].pubkey \in {BadChar, TooLong}
     \/ req[r].signature \in {BadChar, TooShort, SigTooLong}

\* C13 as stated: a verify request whose well-formed signature does not
\* match is answered with the normal result false, not with an error, and
\* differently from a malformed one.
C13_MismatchIsNormalFalse ==
  \A r \in Reqs :
    (Mismatch(r) /\ Terminated(r)) =>
      /\ pc[r] = "done"
      /\ resp[r].status = 200
      /\ "error" \notin DOMAIN resp[r].body
      /\ resp[r].body.data.valid = FALSE
      /\ \A r2 \in Reqs : (Malformed(r2) /\ Terminated(r2)) => resp[r2] # resp[r]

\* C13, amended: a verify request whose well-formed signature does not
\* match is answered, without an abort, 400 with success false and the
\* error "Invalid signature", which differs from the answer to a request
\* with a malformed signature or address.
C13_MismatchIsInvalidSignature ==
  \A r \in Reqs :
    (Mismatch(r) /\ Terminated(r)) =>
      /\ pc[r] = "done"
      /\ resp[r].status = 400
      /\ resp[r].body.success = FALSE
      /\ resp[r].body.error = "Invalid signature"
      /\ \A r2 \in Reqs : (Malformed(r2) /\ Terminated(r2)) => resp[r2] # resp[r]

C13_Witness ==
  \E r, r2 \in Reqs :
    /\ Mismatch(r) /\ pc[r] = "done"
    /\ req[r].signature = SigAHello /\ req[r].pubkey = PubkeyA
    /\ req[r].message = MsgEmpty
    /\ Malformed(r2) /\ pc[r2] = "done"

\* C14: a verify request with a malformed pubkey or signature is answered
\* 400 with success false and the error "Missing Fields", whatever its
\* other fields are; the handler does not abort.
C14_MalformedVerifyIs400 ==
  \A r \in Reqs :
    (Malformed(r) /\ pc[r] # "idle") =>
      /\ pc[r] = "done"
      /\ resp[r].status = 400
      /\ resp[r].body.success = FALSE
      /\ resp[r].body.error = "Missing Fields"

C14_Witness ==
  \E r \in Reqs :
    /\ VerifyReq(r) /\ pc[r] = "done"
    /\ req[r].pubkey = BadChar
    /\ req[r].signature = SigAHello /\ req[r].message = MsgHello
    /\ resp[r].status = 400

\* C15: a sign request with a malformed secret is answered with success
\* false and the error "InvalidKeyEncoding"; the handler does not abort.
C15_MalformedSecretReported ==
  \A r \in Reqs :
    (SignReq(r) /\ req[r].secret \in {BadChar, TooShort} /\ pc[r] # "idle") =>
      /\ pc[r] = "done"
      /\ resp[r].body = [success |-> FALSE, error |-> "InvalidKeyEncoding"]

====
